---------------------------- MODULE Spec2Model ----------------------------
(***************************************************************************)
(* Model of TDH_Lab4_functions.py: SmartVectorLayer.summarize_field,       *)
(* SmartVectorLayer.zonal_stats_to_field,                                  *)
(* SmartVectorLayer.extract_to_pandas_df and smartPanda.plot_from_file.    *)
(*                                                                         *)
(* The geoprocessing backend (arcpy) is the environment: the feature class *)
(* is a schema (fc_fields) and a sequence of rows (fc_rows), the zonal     *)
(* aggregator writes the table in_memory\temp_zonal_stats (temp_table).     *)
(* A backend call that the source wraps in a try block whose handler names *)
(* it (field addition, zonal statistics, table reading, feature class      *)
(* update, row extraction, the field check and the mean calculation of     *)
(* summarize_field) may raise; elsewhere ListFields, Exists and Delete are *)
(* taken to succeed.  Each method is a sequential process whose position   *)
(* is pc; pc = "done" means the call has returned and ret holds what it     *)
(* returned, pc = "idle" that no call is running.                          *)
(***************************************************************************)
EXTENDS Integers, Sequences, FiniteSets, TLC

VARIABLES
    fc_fields,      \* schema of the feature class: sequence of [name, type]
    fc_rows,        \* rows of the feature class: sequence of [field name -> value]
    temp_table,     \* in_memory\temp_zonal_stats: [exists, rows]
    pc,             \* position of the running call
    func,           \* the method that is running or ran last
    output_field,   \* zonal_stats_to_field: the output_field argument
    summary_field,  \* summarize_field: the field argument
    zonal_results,  \* zonal_stats_to_field: the dict zonal_results
    table_count,    \* zonal_stats_to_field: table_count
    cur,            \* rows already consumed by the open cursor
    attempts,       \* backend calls attempted by the running / last call
    fields_arg,     \* extract_to_pandas_df: the fields argument as passed
    fields,         \* extract_to_pandas_df: the local fields
    rows,           \* extract_to_pandas_df: the list rows
    printed,        \* what the running / last call printed
    ret,            \* what the last call returned
    pre,            \* history: schema and rows of the feature class at call entry
    zone_stats,     \* history: the statistic the aggregator computed per zone id
    csv_file,       \* plot_from_file: the control file on disk
    self_df,        \* plot_from_file: the data frame the method is called on
    params,         \* plot_from_file: the data frame params
    param_dict,     \* plot_from_file: the dict param_dict
    plot            \* save_scatterplot: calls made, rows plotted, file saved

layervars == <<fc_fields, fc_rows, temp_table, output_field, summary_field, zonal_results,
               table_count, cur, attempts, fields_arg, fields, rows, pre,
               zone_stats>>

plotvars == <<csv_file, self_df, params, param_dict, plot>>

vars == <<fc_fields, fc_rows, temp_table, pc, func, output_field, summary_field, zonal_results,
          table_count, cur, attempts, fields_arg, fields, rows, printed, ret,
          pre, zone_stats, csv_file, self_df, params, param_dict, plot>>

---------------------------------------------------------------------------
(* Bounds *)

\* most rows a feature class has
MaxRows == 2
\* OBJECTIDs are drawn from 1..MaxOid, so that they may have gaps
MaxOid == 3
\* longest explicit field list given to extract_to_pandas_df
MaxFields == 2

---------------------------------------------------------------------------
(* Values of table cells and of Python variables *)

Null == [k |-> "null", n |-> 0, s |-> ""]
NaN == [k |-> "nan", n |-> 0, s |-> ""]
Num(x) == [k |-> "num", n |-> x, s |-> ""]
Text(t) == [k |-> "text", n |-> 0, s |-> t]
Geom == [k |-> "geom", n |-> 0, s |-> ""]

\* Python None as a value
PyNone == [k |-> "none", n |-> 0, s |-> ""]

\* Python None as the fields argument
None == <<"<None>">>

\* the statistic the raster yields for the zone with identifier oid
RasterStat(oid) == 100 + oid

\* the feature class of the walkthrough: identifier, geometry, one numeric
\* and one text attribute
BaseFields == << [name |-> "OBJECTID", type |-> "OID"],
                 [name |-> "Shape", type |-> "Geometry"],
                 [name |-> "AREA", type |-> "Double"],
                 [name |-> "NAME", type |-> "String"] >>

\* names a caller may pass as output_field
OutputFields == {"ZonalStat", "NDVI_mean", "AREA"}

\* names a caller may pass in fields
ExportNames == {"NAME", "ZonalStat", "Shape"}

Range(f) == {f[x] : x \in DOMAIN f}

\* strictly increasing OBJECTID sequences of at most MaxRows rows
OidSeqs == {s \in UNION {[1..n -> 1..MaxOid] : n \in 0..MaxRows} :
               \A i \in 1..Len(s) - 1 : s[i] < s[i + 1]}

NoTable == [exists |-> FALSE, rows |-> <<>>]

NoAttempts == [AddField |-> 0, ZonalStatisticsAsTable |-> 0, SearchCursor |-> 0,
               UpdateCursor |-> 0, Delete |-> 0]

NoPrint == [processed |-> -1, listed |-> <<>>, problem |-> ""]

\* returned values: None, an error message, a data frame
NoneVal == [k |-> "None", msg |-> <<>>, columns |-> <<>>, data |-> <<>>]
Msg(m) == [k |-> "msg", msg |-> m, columns |-> <<>>, data |-> <<>>]
DataFrame(data, columns) == [k |-> "df", msg |-> <<>>, columns |-> columns, data |-> data]

Ret(okay, val) == [okay |-> okay, val |-> val]

NoPre == [fields |-> <<>>, rows |-> <<>>]

---------------------------------------------------------------------------
(* arcpy.ListFields *)

\* [f.name for f in arcpy.ListFields(self.feature_class)]
existing_fields == [i \in DOMAIN fc_fields |-> fc_fields[i].name]

FieldExists_AllButLast(name) ==
    \E i \in 1..Len(existing_fields) - 1 : existing_fields[i] = name

\* output_field in existing_fields
FieldExists(name) == \E i \in DOMAIN existing_fields : existing_fields[i] = name

---------------------------------------------------------------------------
(* SmartVectorLayer.zonal_stats_to_field *)

AddFieldRows_Zero(name) ==
    [i \in DOMAIN fc_rows |->
        [f \in DOMAIN fc_rows[i] \cup {name} |->
            IF f = name THEN Num(0) ELSE fc_rows[i][f]]]

\* rows of the feature class after AddField(..., "DOUBLE") in a geodatabase:
\* the new column is null in every row
AddFieldRows(name) ==
    [i \in DOMAIN fc_rows |->
        [f \in DOMAIN fc_rows[i] \cup {name} |->
            IF f = name THEN Null ELSE fc_rows[i][f]]]

ResultKey_OwnRowId(row) == row.OBJECTID

\* row[0] of SearchCursor(temp_table, ["OBJECTID_1", statistic_type])
ResultKey(row) == row.OBJECTID_1

\* zonal_results[row[0]] = row[1]
DictPut(d, key, val) ==
    [x \in DOMAIN d \cup {key} |-> IF x = key THEN val ELSE d[x]]

\* the rows ZonalStatisticsAsTable writes for the zones at the positions in
\* covered: one row per covered zone, the zone id in OBJECTID_1
RECURSIVE ZonalRows(_, _)
ZonalRows(pos, covered) ==
    IF pos > Len(fc_rows) THEN <<>>
    ELSE LET oid == fc_rows[pos]["OBJECTID"].n
             rest == ZonalRows(pos + 1, covered)
         IN IF pos \in covered
            THEN << [OBJECTID |-> 0, OBJECTID_1 |-> oid,
                     stat |-> Num(RasterStat(oid))] >> \o rest
            ELSE rest

\* the result table numbers its own rows 1, 2, ... in its OBJECTID column
ZonalTable(covered) ==
    LET t == ZonalRows(1, covered)
    IN [exists |-> TRUE, rows |-> [i \in DOMAIN t |-> [t[i] EXCEPT !.OBJECTID = i]]]

Opened_EveryRow(name) == [attempts EXCEPT ![name] = @ + 1]

\* the first use of a cursor opens it
Opened(name) ==
    IF cur = 0 THEN [attempts EXCEPT ![name] = @ + 1] ELSE attempts

\* entry: okay = True
ZCall ==
    /\ pc = "idle"
    /\ \E of \in OutputFields : output_field' = of
    /\ summary_field' = ""
    /\ func' = "zonal_stats_to_field"
    /\ pc' = "z_fields"
    /\ zonal_results' = <<>>
    /\ table_count' = 0
    /\ cur' = 0
    /\ attempts' = NoAttempts
    /\ printed' = NoPrint
    /\ ret' = Ret(TRUE, NoneVal)
    /\ pre' = [fields |-> fc_fields, rows |-> fc_rows]
    /\ zone_stats' = <<>>
    /\ fields_arg' = None
    /\ fields' = None
    /\ rows' = <<>>
    /\ UNCHANGED <<fc_fields, fc_rows, temp_table>>
    /\ UNCHANGED plotvars

\* output_field in existing_fields: return okay, error_msg
ZFieldExists ==
    /\ pc = "z_fields"
    /\ FieldExists(output_field)
    /\ ret' = Ret(FALSE, Msg(<<"field", output_field, "already exists">>))
    /\ pc' = "done"
    /\ UNCHANGED <<func, printed>>
    /\ UNCHANGED layervars
    /\ UNCHANGED plotvars

\* arcpy.AddField_management(self.feature_class, output_field, "DOUBLE")
ZAddField ==
    /\ pc = "z_fields"
    /\ ~FieldExists(output_field)
    /\ attempts' = [attempts EXCEPT !.AddField = @ + 1]
    /\ fc_fields' = Append(fc_fields, [name |-> output_field, type |-> "Double"])
    /\ fc_rows' = AddFieldRows(output_field)
    /\ pc' = "z_temp"
    /\ UNCHANGED <<temp_table, func, output_field, summary_field, zonal_results, table_count,
                   cur, fields_arg, fields, rows, printed, ret, pre, zone_stats>>
    /\ UNCHANGED plotvars

\* AddField raises: return okay, error_msg
ZAddFieldFails ==
    /\ pc = "z_fields"
    /\ ~FieldExists(output_field)
    /\ attempts' = [attempts EXCEPT !.AddField = @ + 1]
    /\ ret' = Ret(FALSE, Msg(<<"AddField error">>))
    /\ pc' = "done"
    /\ UNCHANGED <<fc_fields, fc_rows, temp_table, func, output_field, summary_field,
                   zonal_results, table_count, cur, fields_arg, fields, rows,
                   printed, pre, zone_stats>>
    /\ UNCHANGED plotvars

ZClearTemp_KeepsTable ==
    /\ pc = "z_temp"
    /\ pc' = "z_zonal"
    /\ UNCHANGED <<fc_fields, fc_rows, temp_table, func, output_field, summary_field,
                   zonal_results, table_count, cur, attempts, fields_arg, fields,
                   rows, printed, ret, pre, zone_stats>>
    /\ UNCHANGED plotvars

\* if arcpy.Exists(temp_table): arcpy.management.Delete(temp_table)
ZClearTemp ==
    /\ pc = "z_temp"
    /\ temp_table' = NoTable
    /\ attempts' = IF temp_table.exists
                   THEN [attempts EXCEPT !.Delete = @ + 1] ELSE attempts
    /\ pc' = "z_zonal"
    /\ UNCHANGED <<fc_fields, fc_rows, func, output_field, summary_field, zonal_results,
                   table_count, cur, fields_arg, fields, rows, printed, ret,
                   pre, zone_stats>>
    /\ UNCHANGED plotvars

\* arcpy.sa.ZonalStatisticsAsTable(...): a row for every zone the raster covers
ZZonalStatistics ==
    /\ pc = "z_zonal"
    /\ attempts' = [attempts EXCEPT !.ZonalStatisticsAsTable = @ + 1]
    /\ \E covered \in SUBSET DOMAIN fc_rows :
         /\ temp_table' = ZonalTable(covered)
         /\ zone_stats' = [oid \in {fc_rows[p]["OBJECTID"].n : p \in covered} |->
                              Num(RasterStat(oid))]
    /\ pc' = "z_read"
    /\ UNCHANGED <<fc_fields, fc_rows, func, output_field, summary_field, zonal_results,
                   table_count, cur, fields_arg, fields, rows, printed, ret, pre>>
    /\ UNCHANGED plotvars

ZZonalStatisticsFails_RemovesField ==
    /\ pc = "z_zonal"
    /\ attempts' = [attempts EXCEPT !.ZonalStatisticsAsTable = @ + 1]
    /\ ret' = Ret(FALSE, Msg(<<"ZonalStatisticsAsTable error">>))
    /\ pc' = "done"
    /\ fc_fields' = pre.fields
    /\ fc_rows' = pre.rows
    /\ UNCHANGED <<temp_table, func, output_field, summary_field, zonal_results, table_count,
                   cur, fields_arg, fields, rows, printed, pre, zone_stats>>
    /\ UNCHANGED plotvars

\* ZonalStatisticsAsTable raises: return okay, error_msg
ZZonalStatisticsFails ==
    /\ pc = "z_zonal"
    /\ attempts' = [attempts EXCEPT !.ZonalStatisticsAsTable = @ + 1]
    /\ ret' = Ret(FALSE, Msg(<<"ZonalStatisticsAsTable error">>))
    /\ pc' = "done"
    /\ UNCHANGED <<fc_fields, fc_rows, temp_table, func, output_field, summary_field,
                   zonal_results, table_count, cur, fields_arg, fields, rows,
                   printed, pre, zone_stats>>
    /\ UNCHANGED plotvars

\* for row in cursor: zonal_results[row[0]] = row[1]; table_count += 1
ZReadRow ==
    /\ pc = "z_read"
    /\ cur < Len(temp_table.rows)
    /\ LET row == temp_table.rows[cur + 1]
       IN zonal_results' = DictPut(zonal_results, ResultKey(row), row.stat)
    /\ table_count' = table_count + 1
    /\ cur' = cur + 1
    /\ attempts' = Opened("SearchCursor")
    /\ UNCHANGED <<fc_fields, fc_rows, temp_table, pc, func, output_field, summary_field,
                   fields_arg, fields, rows, printed, ret, pre, zone_stats>>
    /\ UNCHANGED plotvars

ProcessedCount_AllZones == Len(fc_rows)

\* table_count in print(f"Processed {table_count} zonal stats")
ProcessedCount == table_count

ZReadDone_BeforeExhausted ==
    /\ pc = "z_read"
    /\ printed' = [printed EXCEPT !.processed = ProcessedCount]
    /\ attempts' = Opened("SearchCursor")
    /\ pc' = "z_update"
    /\ cur' = 0
    /\ UNCHANGED <<fc_fields, fc_rows, temp_table, func, output_field, summary_field,
                   zonal_results, table_count, fields_arg, fields, rows, ret,
                   pre, zone_stats>>
    /\ UNCHANGED plotvars

\* cursor exhausted: print(f"Processed {table_count} zonal stats")
ZReadDone ==
    /\ pc = "z_read"
    /\ cur = Len(temp_table.rows)
    /\ printed' = [printed EXCEPT !.processed = ProcessedCount]
    /\ attempts' = Opened("SearchCursor")
    /\ pc' = "z_update"
    /\ cur' = 0
    /\ UNCHANGED <<fc_fields, fc_rows, temp_table, func, output_field, summary_field,
                   zonal_results, table_count, fields_arg, fields, rows, ret,
                   pre, zone_stats>>
    /\ UNCHANGED plotvars

\* the SearchCursor raises: return okay, f"Read error: {e}"
ZReadFails ==
    /\ pc = "z_read"
    /\ printed' = [printed EXCEPT !.problem = "Problem reading the zonal results table"]
    /\ attempts' = Opened("SearchCursor")
    /\ ret' = Ret(FALSE, Msg(<<"Read error">>))
    /\ pc' = "done"
    /\ UNCHANGED <<fc_fields, fc_rows, temp_table, func, output_field, summary_field,
                   zonal_results, table_count, cur, fields_arg, fields, rows,
                   pre, zone_stats>>
    /\ UNCHANGED plotvars

JoinedValue_ZeroForAbsent(row) ==
    LET oid == row["OBJECTID"].n
    IN IF oid \in DOMAIN zonal_results THEN zonal_results[oid] ELSE Num(0)

\* the value of output_field the update loop leaves in a row:
\* if oid in zonal_results: row[1] = zonal_results[oid]; cursor.updateRow(row)
JoinedValue(row) ==
    LET oid == row["OBJECTID"].n
    IN IF oid \in DOMAIN zonal_results THEN zonal_results[oid]
       ELSE row[output_field]

ZUpdateRow_WritesArea ==
    /\ pc = "z_update"
    /\ cur < Len(fc_rows)
    /\ fc_rows' = [fc_rows EXCEPT ![cur + 1] =
                      [@ EXCEPT !["AREA"] = JoinedValue(fc_rows[cur + 1])]]
    /\ cur' = cur + 1
    /\ attempts' = Opened("UpdateCursor")
    /\ UNCHANGED <<fc_fields, temp_table, pc, func, output_field, summary_field, zonal_results,
                   table_count, fields_arg, fields, rows, printed, ret, pre,
                   zone_stats>>
    /\ UNCHANGED plotvars

\* for row in cursor: ...
ZUpdateRow ==
    /\ pc = "z_update"
    /\ cur < Len(fc_rows)
    /\ fc_rows' = [fc_rows EXCEPT ![cur + 1] =
                      [@ EXCEPT ![output_field] = JoinedValue(fc_rows[cur + 1])]]
    /\ cur' = cur + 1
    /\ attempts' = Opened("UpdateCursor")
    /\ UNCHANGED <<fc_fields, temp_table, pc, func, output_field, summary_field, zonal_results,
                   table_count, fields_arg, fields, rows, printed, ret, pre,
                   zone_stats>>
    /\ UNCHANGED plotvars

\* the UpdateCursor raises: return okay, error_msg
ZUpdateFails ==
    /\ pc = "z_update"
    /\ printed' = [printed EXCEPT !.problem = "Problem updating feature class"]
    /\ attempts' = Opened("UpdateCursor")
    /\ ret' = Ret(FALSE, Msg(<<"UpdateCursor error">>))
    /\ pc' = "done"
    /\ UNCHANGED <<fc_fields, fc_rows, temp_table, func, output_field, summary_field,
                   zonal_results, table_count, cur, fields_arg, fields, rows,
                   pre, zone_stats>>
    /\ UNCHANGED plotvars

\* cursor exhausted: arcpy.management.Delete(temp_table); return okay, None
ZFinish ==
    /\ pc = "z_update"
    /\ cur = Len(fc_rows)
    /\ temp_table' = NoTable
    /\ attempts' = [Opened("UpdateCursor") EXCEPT !.Delete = @ + 1]
    /\ ret' = Ret(TRUE, NoneVal)
    /\ pc' = "done"
    /\ UNCHANGED <<fc_fields, fc_rows, func, output_field, summary_field, zonal_results,
                   table_count, cur, fields_arg, fields, rows, printed, pre,
                   zone_stats>>
    /\ UNCHANGED plotvars

---------------------------------------------------------------------------
(* SmartVectorLayer.extract_to_pandas_df *)

\* the strings Python and pandas parse as a number, and the number
IsNumericText(s) == s \in {"12", "5"}

ParseNumber(s) == CASE s = "12" -> 12 [] s = "5" -> 5 [] OTHER -> 0

\* field lists a caller may pass: None, or at most MaxFields names
FieldArgs == {None} \cup UNION {[1..n -> ExportNames] : n \in 0..MaxFields}

\* [f.name for f in arcpy.ListFields(...) if f.type not in ('Geometry', 'OID')]
true_fields ==
    LET Kept(f) == f.type \notin {"Geometry", "OID"}
        kept == SelectSeq(fc_fields, Kept)
    IN [i \in DOMAIN kept |-> kept[i].name]

disallowed_FirstOnly(user_fields) ==
    LET Bad(u) == u \notin Range(true_fields)
        bad == SelectSeq(user_fields, Bad)
    IN IF bad = <<>> THEN <<>> ELSE <<bad[1]>>

\* [user_f for user_f in fields if user_f not in true_fields]
disallowed(user_fields) ==
    LET Bad(u) == u \notin Range(true_fields)
    IN SelectSeq(user_fields, Bad)

\* pd.to_numeric(..., errors='coerce') of one cell
to_numeric(v) ==
    CASE v.k = "num" -> v
      [] v.k = "text" -> IF IsNumericText(v.s) THEN Num(ParseNumber(v.s)) ELSE NaN
      [] OTHER -> NaN

\* a row as SearchCursor(self.feature_class, ["OID@"] + fields) yields it
CursorRow(row, fs) == <<row["OBJECTID"]>> \o [c \in DOMAIN fs |-> row[fs[c]]]

HasDuplicates(fs) == \E i, j \in DOMAIN fs : i < j /\ fs[i] = fs[j]

CoercedFrame_DropMissing(rs) ==
    LET Coerced(r) == [c \in DOMAIN r |-> IF c = 1 THEN r[c] ELSE to_numeric(r[c])]
        Complete(r) == \A c \in DOMAIN r : Coerced(r)[c] # NaN
        kept == SelectSeq(rs, Complete)
    IN [i \in DOMAIN kept |-> Coerced(kept[i])]

\* pd.DataFrame(rows, columns=col_names) after
\* for field in fields: df[field] = pd.to_numeric(df[field], errors='coerce')
CoercedFrame(rs) ==
    [i \in DOMAIN rs |->
        [c \in DOMAIN rs[i] |-> IF c = 1 THEN rs[i][c] ELSE to_numeric(rs[i][c])]]

\* entry: okay = True
ECall ==
    /\ pc = "idle"
    /\ \E f \in FieldArgs : fields_arg' = f /\ fields' = f
    /\ func' = "extract_to_pandas_df"
    /\ pc' = "e_fields"
    /\ rows' = <<>>
    /\ attempts' = NoAttempts
    /\ printed' = NoPrint
    /\ ret' = Ret(TRUE, NoneVal)
    /\ pre' = [fields |-> fc_fields, rows |-> fc_rows]
    /\ output_field' = ""
    /\ summary_field' = ""
    /\ zonal_results' = <<>>
    /\ table_count' = 0
    /\ cur' = 0
    /\ zone_stats' = <<>>
    /\ UNCHANGED <<fc_fields, fc_rows, temp_table>>
    /\ UNCHANGED plotvars

\* fields is None: every field that is neither geometry nor OID
EAllFields ==
    /\ pc = "e_fields"
    /\ fields = None
    /\ fields' = true_fields
    /\ pc' = "e_read"
    /\ UNCHANGED <<fc_fields, fc_rows, temp_table, func, output_field, summary_field,
                   zonal_results, table_count, cur, attempts, fields_arg, rows,
                   printed, ret, pre, zone_stats>>
    /\ UNCHANGED plotvars

\* len(disallowed) == 0
EFieldsValid ==
    /\ pc = "e_fields"
    /\ fields # None
    /\ Len(disallowed(fields)) = 0
    /\ pc' = "e_read"
    /\ UNCHANGED <<func, printed, ret>>
    /\ UNCHANGED layervars
    /\ UNCHANGED plotvars

\* len(disallowed) != 0: print(disallowed); return okay, None
EFieldsInvalid ==
    /\ pc = "e_fields"
    /\ fields # None
    /\ Len(disallowed(fields)) # 0
    /\ printed' = [printed EXCEPT
                      !.problem = "Fields given by user are not valid for this table",
                      !.listed = disallowed(fields)]
    /\ ret' = Ret(FALSE, NoneVal)
    /\ pc' = "done"
    /\ UNCHANGED func
    /\ UNCHANGED layervars
    /\ UNCHANGED plotvars

\* with arcpy.da.SearchCursor(...) as cursor: for row in cursor: rows.append(row)
EReadRows ==
    /\ pc = "e_read"
    /\ attempts' = [attempts EXCEPT !.SearchCursor = @ + 1]
    /\ rows' = [i \in DOMAIN fc_rows |-> CursorRow(fc_rows[i], fields)]
    /\ pc' = "e_frame"
    /\ UNCHANGED <<fc_fields, fc_rows, temp_table, func, output_field, summary_field,
                   zonal_results, table_count, cur, fields_arg, fields, printed,
                   ret, pre, zone_stats>>
    /\ UNCHANGED plotvars

\* the SearchCursor raises: return okay, None
EReadFails ==
    /\ pc = "e_read"
    /\ attempts' = [attempts EXCEPT !.SearchCursor = @ + 1]
    /\ printed' = [printed EXCEPT !.problem = "Error reading rows with SearchCursor"]
    /\ ret' = Ret(FALSE, NoneVal)
    /\ pc' = "done"
    /\ UNCHANGED <<fc_fields, fc_rows, temp_table, func, output_field, summary_field,
                   zonal_results, table_count, cur, fields_arg, fields, rows,
                   pre, zone_stats>>
    /\ UNCHANGED plotvars

\* df = pd.DataFrame(rows, columns=col_names); coercion; return okay, df
EDataFrame ==
    /\ pc = "e_frame"
    /\ ~HasDuplicates(fields)
    /\ ret' = Ret(TRUE, DataFrame(CoercedFrame(rows), <<"OID">> \o fields))
    /\ pc' = "done"
    /\ UNCHANGED <<func, printed>>
    /\ UNCHANGED layervars
    /\ UNCHANGED plotvars

\* a name listed twice: df[field] is a frame, pd.to_numeric raises TypeError,
\* caught: return okay, None
EDataFrameFails ==
    /\ pc = "e_frame"
    /\ HasDuplicates(fields)
    /\ printed' = [printed EXCEPT !.problem = "Error creating DataFrame"]
    /\ ret' = Ret(FALSE, NoneVal)
    /\ pc' = "done"
    /\ UNCHANGED func
    /\ UNCHANGED layervars
    /\ UNCHANGED plotvars

---------------------------------------------------------------------------
(* smartPanda.plot_from_file and smartPanda.save_scatterplot *)

\* columns of the data frame the method is called on
DfColumns == {"OID", "AREA", "NDVI"}

\* pd.read_csv of one column: an empty cell reads as NaN; the column is
\* numeric when every other cell parses as a number, else it holds strings
ReadCsvColumn(cells) ==
    LET numeric == \A i \in DOMAIN cells : cells[i] = "" \/ IsNumericText(cells[i])
    IN [i \in DOMAIN cells |->
          IF cells[i] = "" THEN NaN
          ELSE IF numeric THEN Num(ParseNumber(cells[i])) ELSE Text(cells[i])]

\* pd.read_csv(csv_control_file_path): the columns by header name
ReadCsv(file) ==
    [columns |-> file.header,
     data |-> [c \in DOMAIN file.header |->
                 ReadCsvColumn([i \in DOMAIN file.lines |-> file.lines[i][c]])]]

ColumnIndex(frame, name) == CHOOSE c \in DOMAIN frame.columns : frame.columns[c] = name

HasColumn(frame, name) == \E c \in DOMAIN frame.columns : frame.columns[c] = name

\* {k.strip(): v for k, v in zip(params['Param'], params['Value'])}
\* (the Param cells of the control files drawn here carry no blanks around
\* the name, so k.strip() is k)
ZipDict(keys, values) ==
    [k \in {keys[i].s : i \in DOMAIN keys} |->
        LET last == CHOOSE i \in DOMAIN keys :
                       /\ keys[i].s = k
                       /\ \A j \in DOMAIN keys : keys[j].s = k => j <= i
        IN values[last]]

\* k.strip() raises AttributeError on a cell that is not a string
CanZip(frame) ==
    /\ HasColumn(frame, "Param")
    /\ HasColumn(frame, "Value")
    /\ \A i \in DOMAIN frame.data[ColumnIndex(frame, "Param")] :
          frame.data[ColumnIndex(frame, "Param")][i].k = "text"

required_params == <<"x_field", "y_field", "outfile">>

optional_params == <<"x_min", "x_max", "y_min", "y_max">>

missing_FirstOnly(d) ==
    LET Absent(m) == m \notin DOMAIN d
        all == SelectSeq(required_params, Absent)
    IN IF all = <<>> THEN <<>> ELSE <<all[1]>>

\* [m for m in required_params if m not in param_dict.keys()]
missing(d) ==
    LET Absent(m) == m \notin DOMAIN d
    IN SelectSeq(required_params, Absent)

\* param_dict.get(p, None)
DictGet(d, p) == IF p \in DOMAIN d THEN d[p] ELSE PyNone

\* float(val) returns (else it raises ValueError or TypeError)
CanFloat(val) ==
    \/ val.k \in {"num", "nan"}
    \/ val.k = "text" /\ IsNumericText(val.s)

\* float(val)
Float(val) == IF val.k = "text" THEN Num(ParseNumber(val.s)) ELSE val

\* float(val) if val not in [None, 'None', ''] else None; None when float raises
OptionalValue(val) ==
    IF val \in {PyNone, Text("None"), Text("")} THEN PyNone
    ELSE IF CanFloat(val) THEN Float(val) ELSE PyNone

\* df_to_plot[df_to_plot[field] >= bound] / <= bound; a comparison with NaN
\* is False for every row
Keeps(row, field, bound, atLeast) ==
    \/ bound = PyNone
    \/ /\ bound.k = "num"
       /\ IF atLeast THEN row[field] >= bound.n ELSE row[field] <= bound.n

\* the rows save_scatterplot plots
RowsToPlot(df, x_field, y_field, b) ==
    LET Kept(row) == /\ Keeps(row, x_field, b.x_min, TRUE)
                     /\ Keeps(row, x_field, b.x_max, FALSE)
                     /\ Keeps(row, y_field, b.y_min, TRUE)
                     /\ Keeps(row, y_field, b.y_max, FALSE)
    IN SelectSeq(df, Kept)

\* entry
PCall ==
    /\ pc = "idle"
    /\ func' = "plot_from_file"
    /\ pc' = "p_read"
    /\ UNCHANGED <<printed, ret>>
    /\ UNCHANGED layervars
    /\ UNCHANGED plotvars

\* params = pd.read_csv(csv_control_file_path)
PReadCsv ==
    /\ pc = "p_read"
    /\ csv_file.readable
    /\ params' = ReadCsv(csv_file)
    /\ pc' = "p_dict"
    /\ UNCHANGED <<func, printed, ret, csv_file, self_df, param_dict, plot>>
    /\ UNCHANGED layervars

\* pd.read_csv raises: return False
PReadCsvFails ==
    /\ pc = "p_read"
    /\ ~csv_file.readable
    /\ printed' = [printed EXCEPT !.problem = "Problem reading the control file"]
    /\ ret' = Ret(FALSE, NoneVal)
    /\ pc' = "done"
    /\ UNCHANGED func
    /\ UNCHANGED layervars
    /\ UNCHANGED plotvars

\* param_dict = {k.strip(): v for k, v in zip(params['Param'], params['Value'])}
PDict ==
    /\ pc = "p_dict"
    /\ CanZip(params)
    /\ param_dict' = ZipDict(params.data[ColumnIndex(params, "Param")],
                             params.data[ColumnIndex(params, "Value")])
    /\ pc' = "p_required"
    /\ UNCHANGED <<func, printed, ret, csv_file, self_df, params, plot>>
    /\ UNCHANGED layervars

\* the comprehension raises (no such column, a key that is no string): return False
PDictFails ==
    /\ pc = "p_dict"
    /\ ~CanZip(params)
    /\ printed' = [printed EXCEPT !.problem = "Problem setting up dictionary"]
    /\ ret' = Ret(FALSE, NoneVal)
    /\ pc' = "done"
    /\ UNCHANGED func
    /\ UNCHANGED layervars
    /\ UNCHANGED plotvars

\* if missing: print(missing); return False
PRequiredMissing ==
    /\ pc = "p_required"
    /\ missing(param_dict) # <<>>
    /\ printed' = [printed EXCEPT
                      !.problem = "The param file needs to have these additional parameters",
                      !.listed = missing(param_dict)]
    /\ ret' = Ret(FALSE, NoneVal)
    /\ pc' = "done"
    /\ UNCHANGED func
    /\ UNCHANGED layervars
    /\ UNCHANGED plotvars

\* for p in optional_params: param_dict[p] = ...
POptional ==
    /\ pc = "p_required"
    /\ missing(param_dict) = <<>>
    /\ param_dict' = [k \in DOMAIN param_dict \cup Range(optional_params) |->
                        IF k \in Range(optional_params)
                        THEN OptionalValue(DictGet(param_dict, k))
                        ELSE param_dict[k]]
    /\ LET Failed(p) == LET val == DictGet(param_dict, p)
                        IN val \notin {PyNone, Text("None"), Text("")} /\ ~CanFloat(val)
       IN printed' = [printed EXCEPT !.listed = SelectSeq(optional_params, Failed)]
    /\ pc' = "p_plot"
    /\ UNCHANGED <<func, ret, csv_file, self_df, params, plot>>
    /\ UNCHANGED layervars

\* the bounds plot_from_file passes to save_scatterplot
PassedBounds ==
    [x_min |-> param_dict["x_min"], x_max |-> param_dict["x_max"],
     y_min |-> param_dict["y_min"], y_max |-> param_dict["y_max"]]

\* both fields are columns of the frame
FieldsInFrame ==
    /\ param_dict["x_field"].k = "text" /\ param_dict["x_field"].s \in DfColumns
    /\ param_dict["y_field"].k = "text" /\ param_dict["y_field"].s \in DfColumns

\* self.save_scatterplot(...) completes: return True
PSaveScatterplot ==
    /\ pc = "p_plot"
    /\ FieldsInFrame
    /\ param_dict["outfile"].k = "text"
    /\ plot' = [calls |-> plot.calls + 1, saved |-> TRUE,
                data |-> RowsToPlot(self_df, param_dict["x_field"].s,
                                    param_dict["y_field"].s, PassedBounds),
                bounds |-> PassedBounds]
    /\ ret' = Ret(TRUE, NoneVal)
    /\ pc' = "done"
    /\ UNCHANGED <<func, printed, csv_file, self_df, params, param_dict>>
    /\ UNCHANGED layervars

\* save_scatterplot raises (ValueError for a field that is no column, or
\* savefig fails), caught: return False
PSaveScatterplotRaises ==
    /\ pc = "p_plot"
    /\ plot' = [calls |-> plot.calls + 1, saved |-> FALSE, data |-> <<>>,
                bounds |-> PassedBounds]
    /\ printed' = [printed EXCEPT !.problem = "Problem saving the scatterplot"]
    /\ ret' = Ret(FALSE, NoneVal)
    /\ pc' = "done"
    /\ UNCHANGED <<func, csv_file, self_df, params, param_dict>>
    /\ UNCHANGED layervars

---------------------------------------------------------------------------
(* SmartVectorLayer.summarize_field *)

\* names a caller may pass as field
SummaryFields == {"AREA", "NAME", "Shape", "ZonalStat", "bogus"}

\* the column of name as SearchCursor(self.feature_class, [field]) yields it
Column(name) == [i \in DOMAIN fc_rows |-> fc_rows[i][name]]

\* math.isnan(row[0]) raises TypeError for a value that is no number
IsnanRaises(v) == v.k \in {"text", "geom"}

vals_NullAsZero(name) ==
    LET Kept(v) == v.k \in {"num", "null"}
        kept == SelectSeq(Column(name), Kept)
    IN [i \in DOMAIN kept |-> kept[i].n]

\* [row[0] for row in cursor if row[0] is not None and not math.isnan(row[0])]
vals(name) ==
    LET Kept(v) == v # Null /\ v # NaN
        kept == SelectSeq(Column(name), Kept)
    IN [i \in DOMAIN kept |-> kept[i].n]

\* sum(vals)
RECURSIVE sum(_)
sum(vs) == IF vs = <<>> THEN 0 ELSE vs[1] + sum(Tail(vs))

\* sum(vals) / len(vals), the quotient kept as numerator and denominator
Mean(vs) == [k |-> "float", msg |-> <<>>, columns |-> <<>>,
             data |-> <<sum(vs), Len(vs)>>]

\* entry: okay = True
SCall ==
    /\ pc = "idle"
    /\ \E f \in SummaryFields : summary_field' = f
    /\ func' = "summarize_field"
    /\ pc' = "s_fields"
    /\ attempts' = NoAttempts
    /\ printed' = NoPrint
    /\ ret' = Ret(TRUE, NoneVal)
    /\ pre' = [fields |-> fc_fields, rows |-> fc_rows]
    /\ output_field' = ""
    /\ zonal_results' = <<>>
    /\ table_count' = 0
    /\ cur' = 0
    /\ zone_stats' = <<>>
    /\ fields_arg' = None
    /\ fields' = None
    /\ rows' = <<>>
    /\ UNCHANGED <<fc_fields, fc_rows, temp_table>>
    /\ UNCHANGED plotvars

\* field not in existing_fields: return False, None
SFieldMissing ==
    /\ pc = "s_fields"
    /\ ~FieldExists(summary_field)
    /\ printed' = [printed EXCEPT !.problem = "is not in list of possible fields",
                                  !.listed = <<summary_field>>]
    /\ ret' = Ret(FALSE, NoneVal)
    /\ pc' = "done"
    /\ UNCHANGED func
    /\ UNCHANGED layervars
    /\ UNCHANGED plotvars

\* field in existing_fields: on to the second try block
SFieldFound ==
    /\ pc = "s_fields"
    /\ FieldExists(summary_field)
    /\ pc' = "s_mean"
    /\ UNCHANGED <<func, printed, ret>>
    /\ UNCHANGED layervars
    /\ UNCHANGED plotvars

\* ListFields raises: the handler prints and falls through, okay still True
SListFieldsFails ==
    /\ pc = "s_fields"
    /\ printed' = [printed EXCEPT !.problem = "Problem checking the fields"]
    /\ pc' = "s_mean"
    /\ UNCHANGED <<func, ret>>
    /\ UNCHANGED layervars
    /\ UNCHANGED plotvars

\* the exceptions the second try block can raise: the cursor (always for a
\* field the feature class does not have), math.isnan on the first non-null
\* value that is no number, the division when vals is empty
MeanRaises ==
    {"RuntimeError"}
    \cup (IF ~FieldExists(summary_field) THEN {}
          ELSE IF \E i \in DOMAIN fc_rows : IsnanRaises(fc_rows[i][summary_field])
               THEN {"TypeError"}
               ELSE IF vals(summary_field) = <<>> THEN {"ZeroDivisionError"} ELSE {})

\* mean = sum(vals) / len(vals); return okay, mean
SMean ==
    /\ pc = "s_mean"
    /\ MeanRaises = {"RuntimeError"}
    /\ FieldExists(summary_field)
    /\ attempts' = [attempts EXCEPT !.SearchCursor = @ + 1]
    /\ ret' = Ret(ret.okay, Mean(vals(summary_field)))
    /\ pc' = "done"
    /\ UNCHANGED <<fc_fields, fc_rows, temp_table, func, output_field,
                   summary_field, zonal_results, table_count, cur, fields_arg,
                   fields, rows, printed, pre, zone_stats>>
    /\ UNCHANGED plotvars

\* the second try block raises: okay = False; return okay, None
SMeanFails ==
    /\ pc = "s_mean"
    /\ \E e \in MeanRaises :
         printed' = [printed EXCEPT !.problem = "Problem calculating mean",
                                    !.listed = <<e>>]
    /\ attempts' = [attempts EXCEPT !.SearchCursor = @ + 1]
    /\ ret' = Ret(FALSE, NoneVal)
    /\ pc' = "done"
    /\ UNCHANGED <<fc_fields, fc_rows, temp_table, func, output_field,
                   summary_field, zonal_results, table_count, cur, fields_arg,
                   fields, rows, pre, zone_stats>>
    /\ UNCHANGED plotvars

---------------------------------------------------------------------------
(* Specification of the vector layer: any sequence of calls of             *)
(* zonal_stats_to_field, extract_to_pandas_df and summarize_field on one   *)
(* feature class                                                           *)

\* the NAME column repeats these cells down the OBJECTIDs
NamePattern == <<Text("12"), Text("abc"), Null>>

InitRows(oids, shift) ==
    [i \in DOMAIN oids |->
        [f \in {"OBJECTID", "Shape", "AREA", "NAME"} |->
            CASE f = "OBJECTID" -> Num(oids[i])
              [] f = "Shape" -> Geom
              [] f = "AREA" -> Num(10 * oids[i])
              [] OTHER -> NamePattern[((oids[i] + shift) % 3) + 1]]]

NoFile == [readable |-> FALSE, header |-> <<>>, lines |-> <<>>]

NoPlot == [calls |-> 0, saved |-> FALSE, data |-> <<>>, bounds |-> <<>>]

InitLocals ==
    /\ pc = "idle"
    /\ func = "none"
    /\ output_field = ""
    /\ summary_field = ""
    /\ zonal_results = <<>>
    /\ table_count = 0
    /\ cur = 0
    /\ attempts = NoAttempts
    /\ fields_arg = None
    /\ fields = None
    /\ rows = <<>>
    /\ printed = NoPrint
    /\ ret = Ret(TRUE, NoneVal)
    /\ pre = NoPre
    /\ zone_stats = <<>>
    /\ params = <<>>
    /\ param_dict = <<>>
    /\ plot = NoPlot

\* the caller has taken the returned value; the locals of the call are gone
Continue ==
    /\ pc = "done"
    /\ pc' = "idle"
    /\ func' = "none"
    /\ output_field' = ""
    /\ summary_field' = ""
    /\ zonal_results' = <<>>
    /\ table_count' = 0
    /\ cur' = 0
    /\ attempts' = NoAttempts
    /\ fields_arg' = None
    /\ fields' = None
    /\ rows' = <<>>
    /\ printed' = NoPrint
    /\ ret' = Ret(TRUE, NoneVal)
    /\ pre' = NoPre
    /\ zone_stats' = <<>>
    /\ params' = <<>>
    /\ param_dict' = <<>>
    /\ plot' = NoPlot
    /\ UNCHANGED <<fc_fields, fc_rows, temp_table, csv_file, self_df>>

Init ==
    /\ InitLocals
    /\ fc_fields = BaseFields
    /\ \E oids \in OidSeqs : \E shift \in 0..2 : fc_rows = InitRows(oids, shift)
    /\ temp_table = NoTable
    /\ csv_file = NoFile
    /\ self_df = <<>>

Next ==
    \/ ZCall
    \/ ZFieldExists
    \/ ZAddField
    \/ ZAddFieldFails
    \/ ZClearTemp
    \/ ZZonalStatistics
    \/ ZZonalStatisticsFails
    \/ ZReadRow
    \/ ZReadDone
    \/ ZReadFails
    \/ ZUpdateRow
    \/ ZUpdateFails
    \/ ZFinish
    \/ ECall
    \/ EAllFields
    \/ EFieldsValid
    \/ EFieldsInvalid
    \/ EReadRows
    \/ EReadFails
    \/ EDataFrame
    \/ EDataFrameFails
    \/ SCall
    \/ SFieldMissing
    \/ SFieldFound
    \/ SListFieldsFails
    \/ SMean
    \/ SMeanFails
    \/ Continue

Spec == Init /\ [][Next]_vars

---------------------------------------------------------------------------
(* Specification of the plot: one call of plot_from_file on a control file  *)
(* and a data frame                                                        *)

\* most rows of the data frame that is plotted
MaxDfRows == 2

\* rows of the data frame
DfRows == {[AREA |-> 3, NDVI |-> 8], [AREA |-> 8, NDVI |-> 3]}

Absent == "<absent>"

\* what the control file says for each key: no line, or a line with this Value
KeyOptions(key) ==
    CASE key = "x_field" -> {Absent, "AREA", "bogus"}
      [] key = "y_field" -> {Absent, "NDVI"}
      [] key = "outfile" -> {Absent, "out.png"}
      [] OTHER -> {Absent, "", "5", "abc"}

KeyOrder == required_params \o optional_params

\* the lines Param,Value of the control file for a choice of options
FileLines(choice) ==
    LET Present(key) == choice[key] # Absent
        keys == SelectSeq(KeyOrder, Present)
    IN [i \in DOMAIN keys |-> <<keys[i], choice[keys[i]]>>]

Choices == [x_field : KeyOptions("x_field"), y_field : KeyOptions("y_field"),
            outfile : KeyOptions("outfile"),
            x_min : KeyOptions("x_min"), x_max : KeyOptions("x_max"),
            y_min : KeyOptions("y_min"), y_max : KeyOptions("y_max")]

ControlFiles ==
    {NoFile}
    \cup {[readable |-> TRUE, header |-> <<"Param", "Value">>, lines |-> FileLines(c)] :
            c \in Choices}
    \cup {[readable |-> TRUE, header |-> h,
           lines |-> <<<<"x_field", "AREA">>, <<"y_field", "NDVI">>, <<"outfile", "out.png">>>>] :
            h \in {<<"Name", "Value">>, <<"Param", "Val">>, <<"Value", "Param">>}}

InitPlot ==
    /\ InitLocals
    /\ fc_fields = BaseFields
    /\ fc_rows = <<>>
    /\ temp_table = NoTable
    /\ csv_file \in ControlFiles
    /\ self_df \in UNION {[1..n -> DfRows] : n \in 0..MaxDfRows}

NextPlot ==
    \/ PCall
    \/ PReadCsv
    \/ PReadCsvFails
    \/ PDict
    \/ PDictFails
    \/ PRequiredMissing
    \/ POptional
    \/ PSaveScatterplot
    \/ PSaveScatterplotRaises

SpecPlot == InitPlot /\ [][NextPlot]_vars

---------------------------------------------------------------------------
(* Properties of zonal_stats_to_field *)

ZonalName == "zonal_stats_to_field"

\* a call of zonal_stats_to_field has returned
ZReturned == func = ZonalName /\ pc = "done"

\* the names of the schema at call entry
PreNames == {pre.fields[i].name : i \in DOMAIN pre.fields}

Collision == Ret(FALSE, Msg(<<"field", output_field, "already exists">>))

ZonalError == Msg(<<"ZonalStatisticsAsTable error">>)

OidOf(row) == row["OBJECTID"].n

\* C1: the call returns the field-collision failure exactly when output_field
\* was a field of the feature class at entry; it then has added no field,
\* invoked no aggregator and left every row as it was; otherwise it goes on
\* to add the field.
C1_CollisionIffFieldExists ==
    (func = ZonalName /\ pc # "z_fields") =>
        IF output_field \in PreNames
        THEN /\ pc = "done"
             /\ ret = Collision
             /\ attempts.AddField = 0
             /\ attempts.ZonalStatisticsAsTable = 0
             /\ attempts.UpdateCursor = 0
             /\ fc_fields = pre.fields
             /\ fc_rows = pre.rows
        ELSE /\ attempts.AddField = 1
             /\ ret # Collision

\* a collision with a column that holds values
C1_Witness ==
    /\ ZReturned
    /\ ret = Collision
    /\ \E i \in DOMAIN fc_rows : fc_rows[i][output_field] # Null

\* C2 (as specified): once the aggregator has created the temporary table, the
\* table is gone when the call returns, on every exit path.
C2_TempTableDeletedOnEveryExit ==
    (ZReturned /\ attempts.ZonalStatisticsAsTable = 1 /\ ret.val # ZonalError)
        => ~temp_table.exists

\* C3: a call that returns straight after the aggregator invocation (the
\* invocation raised) returns (False, the backend's error); the field it
\* added is on the feature class, null in every row, and nothing else of
\* the feature class changed.
C3_AggregatorFailureKeepsEmptyField ==
    (ZReturned /\ attempts.ZonalStatisticsAsTable = 1 /\ attempts.SearchCursor = 0) =>
        /\ ret = Ret(FALSE, ZonalError)
        /\ fc_fields = Append(pre.fields, [name |-> output_field, type |-> "Double"])
        /\ DOMAIN fc_rows = DOMAIN pre.rows
        /\ \A i \in DOMAIN fc_rows :
              /\ fc_rows[i][output_field] = Null
              /\ \A f \in DOMAIN pre.rows[i] : fc_rows[i][f] = pre.rows[i][f]

C3_Witness ==
    /\ ZReturned
    /\ attempts.ZonalStatisticsAsTable = 1
    /\ attempts.SearchCursor = 0
    /\ Len(fc_rows) > 1

\* C4: after a successful call every row whose OBJECTID the aggregator
\* returned holds that zone's statistic in output_field, every other row
\* holds null; and the update loop can always step over a row, whether or
\* not its zone is in the result.
C4_SuccessfulJoin ==
    /\ (ZReturned /\ ret.okay) =>
          \A i \in DOMAIN fc_rows :
             fc_rows[i][output_field] =
                IF OidOf(fc_rows[i]) \in DOMAIN zone_stats
                THEN zone_stats[OidOf(fc_rows[i])] ELSE Null
    /\ (pc = "z_update" /\ cur < Len(fc_rows)) => ENABLED ZUpdateRow

\* a successful call with a covered and an uncovered zone
C4_Witness ==
    /\ ZReturned
    /\ ret.okay
    /\ \E i, j \in DOMAIN fc_rows :
          /\ OidOf(fc_rows[i]) \in DOMAIN zone_stats
          /\ OidOf(fc_rows[j]) \notin DOMAIN zone_stats

\* C5: every key of zonal_results is the OBJECTID of a row of the feature
\* class and maps to the statistic the aggregator computed for that zone, and
\* a value written to a row is the statistic of that row's own zone.
C5_MappingKeyedByZoneId ==
    func = ZonalName =>
        /\ \A key \in DOMAIN zonal_results :
              /\ \E i \in DOMAIN fc_rows : OidOf(fc_rows[i]) = key
              /\ key \in DOMAIN zone_stats
              /\ zonal_results[key] = zone_stats[key]
        /\ attempts.ZonalStatisticsAsTable = 1 =>
              \A i \in DOMAIN fc_rows :
                 fc_rows[i][output_field] # Null =>
                    /\ OidOf(fc_rows[i]) \in DOMAIN zone_stats
                    /\ fc_rows[i][output_field] = zone_stats[OidOf(fc_rows[i])]

\* a value was written from a result row whose own row id is not its zone id
C5_Witness ==
    /\ func = ZonalName
    /\ pc = "z_update"
    /\ \E r \in DOMAIN temp_table.rows : \E i \in DOMAIN fc_rows :
          /\ temp_table.rows[r].OBJECTID # temp_table.rows[r].OBJECTID_1
          /\ OidOf(fc_rows[i]) = temp_table.rows[r].OBJECTID_1
          /\ fc_rows[i][output_field] # Null

\* C6: after a successful call on N rows of which the aggregator returned K
\* zones, output_field holds K non-null values and N-K nulls and the printed
\* count of processed zones is K.
C6_CountsMatchCoverage ==
    (ZReturned /\ ret.okay) =>
        LET K == Cardinality(DOMAIN zone_stats)
            N == Len(fc_rows)
        IN /\ Cardinality({i \in DOMAIN fc_rows : fc_rows[i][output_field] # Null}) = K
           /\ Cardinality({i \in DOMAIN fc_rows : fc_rows[i][output_field] = Null}) = N - K
           /\ printed.processed = K

C6_Witness ==
    /\ ZReturned
    /\ ret.okay
    /\ Cardinality(DOMAIN zone_stats) > 0
    /\ Cardinality(DOMAIN zone_stats) < Len(fc_rows)

---------------------------------------------------------------------------
(* Properties of extract_to_pandas_df *)

ExtractName == "extract_to_pandas_df"

\* a call of extract_to_pandas_df has returned
EReturned == func = ExtractName /\ pc = "done"

\* name is a field of the feature class that is neither geometry nor identifier
Exportable(name) ==
    \E i \in DOMAIN pre.fields :
       /\ pre.fields[i].name = name
       /\ pre.fields[i].type # "Geometry"
       /\ pre.fields[i].type # "OID"

\* the requested fields that are not exportable, in the order requested
InvalidRequested ==
    LET Invalid(name) == ~Exportable(name)
    IN IF fields_arg = None THEN <<>> ELSE SelectSeq(fields_arg, Invalid)

\* every exportable field of the schema, in schema order
AllExportable ==
    LET Kept(f) == Exportable(f.name)
        kept == SelectSeq(pre.fields, Kept)
    IN [i \in DOMAIN kept |-> kept[i].name]

RejectedAtValidation ==
    printed.problem = "Fields given by user are not valid for this table"

ReadRaised == printed.problem = "Error reading rows with SearchCursor"

FrameRaised == printed.problem = "Error creating DataFrame"

RequestedTwice ==
    /\ fields_arg # None
    /\ \E i, j \in DOMAIN fields_arg : i < j /\ fields_arg[i] = fields_arg[j]

\* C7 (as specified): the call fails exactly when an explicit field list holds
\* an invalid field, and then reports every invalid field; with fields=None
\* it succeeds and exports the identifier plus every field that is neither
\* geometry nor identifier.
C7_FailsIffInvalidField ==
    EReturned =>
        /\ ~ret.okay <=> InvalidRequested # <<>>
        /\ ~ret.okay => printed.listed = InvalidRequested
        /\ fields_arg = None =>
              /\ ret.okay
              /\ ret.val.columns = <<"OID">> \o AllExportable

\* C7 (amended): an explicit field list is rejected at validation, before any
\* row is read, exactly when it holds an invalid field, and every invalid
\* field is then printed; a call that passes validation fails only in the
\* handler of the row read or of the data frame construction, and a field
\* requested twice never succeeds; a successful fields=None exports the
\* identifier plus every field that is neither geometry nor identifier.
C7_RejectedIffInvalidField ==
    EReturned =>
        /\ RejectedAtValidation <=> InvalidRequested # <<>>
        /\ RejectedAtValidation =>
              /\ ret = Ret(FALSE, NoneVal)
              /\ printed.listed = InvalidRequested
              /\ attempts.SearchCursor = 0
        /\ (~ret.okay /\ ~RejectedAtValidation) => (ReadRaised \/ FrameRaised)
        /\ (FrameRaised \/ ret.okay) => attempts.SearchCursor = 1
        /\ ret.okay => (~RequestedTwice /\ ret.val.k = "df")
        /\ (ret.okay /\ fields_arg = None) =>
              ret.val.columns = <<"OID">> \o AllExportable
        /\ (ret.okay /\ fields_arg # None) =>
              ret.val.columns = <<"OID">> \o fields_arg

\* a rejection that lists two different invalid fields
C7_Witness ==
    /\ EReturned
    /\ RejectedAtValidation
    /\ Len(printed.listed) = 2
    /\ printed.listed[1] # printed.listed[2]

\* C8: a successful export has one row per row of the feature class, in the
\* same order, the identifier in the first column; every other cell is the
\* source cell coerced on its own: a number stays, a numeric string becomes
\* its number, anything else becomes NaN, and no row is dropped for it.
C8_ExportKeepsRowsCoercesCells ==
    (EReturned /\ ret.okay) =>
        LET df == ret.val
        IN /\ Len(df.columns) >= 1
           /\ df.columns[1] = "OID"
           /\ Len(df.data) = Len(fc_rows)
           /\ \A r \in DOMAIN df.data :
                 /\ Len(df.data[r]) = Len(df.columns)
                 /\ df.data[r][1] = fc_rows[r]["OBJECTID"]
                 /\ \A c \in 2..Len(df.columns) :
                       LET src == fc_rows[r][df.columns[c]]
                       IN df.data[r][c] =
                             IF src.k = "num" THEN src
                             ELSE IF src = Text("12") THEN Num(12) ELSE NaN

\* a row with a text cell that became NaN beside a cell that kept its number
C8_Witness ==
    /\ EReturned
    /\ ret.okay
    /\ \E r \in DOMAIN ret.val.data : \E c, d \in 2..Len(ret.val.columns) :
          /\ fc_rows[r][ret.val.columns[c]] = Text("abc")
          /\ ret.val.data[r][c] = NaN
          /\ ret.val.data[r][d].k = "num"

---------------------------------------------------------------------------
(* Properties of plot_from_file *)

PlotName == "plot_from_file"

PReturned == func = PlotName /\ pc = "done"

\* the Value text the control file gives for a key, Absent when it has no line
FileValue(key) ==
    IF \E i \in DOMAIN csv_file.lines : csv_file.lines[i][1] = key
    THEN LET i == CHOOSE j \in DOMAIN csv_file.lines : csv_file.lines[j][1] = key
         IN csv_file.lines[i][2]
    ELSE Absent

HasParamValueColumns ==
    /\ \E c \in DOMAIN csv_file.header : csv_file.header[c] = "Param"
    /\ \E c \in DOMAIN csv_file.header : csv_file.header[c] = "Value"

\* the required keys the control file has no line for
MissingRequired ==
    LET NoLine(key) == FileValue(key) = Absent
    IN SelectSeq(required_params, NoLine)

\* C9 (as specified): the bound passed to save_scatterplot for an optional key
\* is None when the key is absent or its value is blank, None when the value
\* does not parse as a number, and the number otherwise; with no bound given
\* no row is filtered.
C9_OptionalBoundsDegradeToNone ==
    (func = PlotName /\ plot.calls = 1) =>
        /\ \A i \in DOMAIN optional_params :
              LET p == optional_params[i]
              IN plot.bounds[p] =
                    IF FileValue(p) \in {Absent, ""} THEN PyNone
                    ELSE IF FileValue(p) = "5" THEN Num(5) ELSE PyNone
        /\ (plot.saved /\ \A i \in DOMAIN optional_params :
                             FileValue(optional_params[i]) \in {Absent, "", "abc"})
              => plot.data = self_df

\* C10: a control file that cannot be read, lacks the Param or Value column
\* or lacks a required key makes the call return False with no plot
\* attempted, all missing required keys printed together; the call returns
\* True only when save_scatterplot completed; a field that is no column of
\* the frame gives False; and at every position of a running call some
\* branch, the normal one or a handler, applies (nothing escapes as an
\* exception).
C10_PlotFromFileFailsClosed ==
    /\ PReturned =>
          /\ ret.val = NoneVal
          /\ (~csv_file.readable \/ ~HasParamValueColumns \/ MissingRequired # <<>>)
                => (~ret.okay /\ plot.calls = 0)
          /\ (csv_file.readable /\ HasParamValueColumns /\ MissingRequired # <<>>)
                => printed.listed = MissingRequired
          /\ ret.okay => (plot.calls = 1 /\ plot.saved)
          /\ (FileValue("x_field") \notin DfColumns \/ FileValue("y_field") \notin DfColumns)
                => ~ret.okay
    /\ (func = PlotName /\ pc # "done") => ENABLED NextPlot

\* a control file without two of the required keys
C10_Witness ==
    /\ PReturned
    /\ ~ret.okay
    /\ Len(printed.listed) = 2
    /\ printed.listed = MissingRequired

---------------------------------------------------------------------------
(* Properties of one call and of sequences of calls of zonal_stats_to_field *)

AddFieldError == Msg(<<"AddField error">>)

ReadError == Msg(<<"Read error">>)

UpdateError == Msg(<<"UpdateCursor error">>)

\* the backend operations of the pipeline, in the order of the source
Steps == <<"AddField", "ZonalStatisticsAsTable", "SearchCursor", "UpdateCursor">>

\* the step whose failure a returned value reports, 0 if none
FailedStep ==
    CASE ret.val = AddFieldError -> 1
      [] ret.val = ZonalError -> 2
      [] ret.val = ReadError -> 3
      [] ret.val = UpdateError -> 4
      [] OTHER -> 0

\* C11: within one call the field add, the aggregator invocation, the read of
\* the result table and the write-back pass are each attempted at most once;
\* a call that returns the failure of one of them has attempted that step
\* and every earlier step exactly once and no later step.
C11_EachStepAtMostOnce ==
    func = ZonalName =>
        /\ \A k \in DOMAIN Steps : attempts[Steps[k]] <= 1
        /\ (ZReturned /\ FailedStep > 0) =>
              \A k \in DOMAIN Steps :
                 attempts[Steps[k]] = IF k <= FailedStep THEN 1 ELSE 0

\* the write-back pass failed after it had written a row: all four steps
\* were attempted and more than one row was read and written before
C11_Witness ==
    /\ ZReturned
    /\ ret.val = UpdateError
    /\ table_count > 1
    /\ cur > 1
    /\ \A k \in DOMAIN Steps : attempts[Steps[k]] = 1

\* C12: in every state of a zonal_stats_to_field call, returned or not, the
\* feature class has the rows it had at entry, each with the columns it had
\* plus at most output_field, and every column other than output_field holds
\* the value it held at entry; in every state of an extract_to_pandas_df
\* call the schema and the rows are those at entry.
C12_WritesOnlyOutputField ==
    /\ func = ZonalName =>
          /\ DOMAIN fc_rows = DOMAIN pre.rows
          /\ \A i \in DOMAIN fc_rows :
                /\ DOMAIN pre.rows[i] \subseteq DOMAIN fc_rows[i]
                /\ DOMAIN fc_rows[i] \subseteq DOMAIN pre.rows[i] \cup {output_field}
                /\ \A f \in DOMAIN pre.rows[i] \ {output_field} :
                      fc_rows[i][f] = pre.rows[i][f]
    /\ func = ExtractName =>
          /\ fc_fields = pre.fields
          /\ fc_rows = pre.rows

\* a successful call that wrote a statistic into every one of several rows
C12_Witness ==
    /\ ZReturned
    /\ ret.okay
    /\ Len(fc_rows) > 1
    /\ \A i \in DOMAIN fc_rows :
          /\ fc_rows[i][output_field] # Null
          /\ output_field \notin DOMAIN pre.rows[i]

\* the aggregator of the running / last call has written its result table
AggregatorSucceeded ==
    /\ attempts.ZonalStatisticsAsTable = 1
    /\ ~(pc = "done" /\ ret.val = ZonalError)

\* C13: in a call of zonal_stats_to_field the aggregator is invoked only
\* when the call has added output_field; a row of the feature class is
\* updated only when the whole result table is in zonal_results; the result
\* table is there from the aggregator's success until the write-back pass has
\* gone over every row; and a call that returns the failure of the aggregator
\* or of the read has opened no update cursor and left output_field null in
\* every row.
C13_StepsInOrder ==
    func = ZonalName =>
        /\ attempts.ZonalStatisticsAsTable > 0 =>
              /\ attempts.AddField = 1
              /\ output_field \notin PreNames
              /\ FieldExists(output_field)
        /\ (attempts.UpdateCursor > 0 \/ pc = "z_update") =>
              /\ AggregatorSucceeded
              /\ zonal_results = zone_stats
              /\ table_count = Len(temp_table.rows) \/ ~temp_table.exists
              /\ printed.processed = table_count
        /\ (AggregatorSucceeded /\ ~temp_table.exists) =>
              /\ pc = "done"
              /\ ret = Ret(TRUE, NoneVal)
              /\ attempts.UpdateCursor = 1
              /\ cur = Len(fc_rows)
        /\ (ZReturned /\ ret.val \in {ZonalError, ReadError}) =>
              /\ attempts.UpdateCursor = 0
              /\ \A i \in DOMAIN fc_rows : fc_rows[i][output_field] = Null

\* a successful call that first cleared the table an earlier call had left
\* behind, then read several result rows, wrote them and deleted the table
C13_Witness ==
    /\ ZReturned
    /\ ret.okay
    /\ table_count > 1
    /\ attempts.Delete = 2

\* the zone ids in the rows of the temporary table
TableZones == {temp_table.rows[r].OBJECTID_1 : r \in DOMAIN temp_table.rows}

\* C14: whenever a call is about to invoke the aggregator the temporary
\* table does not exist, whatever earlier calls left behind; while the call
\* reads, the table holds exactly the rows its own aggregator invocation
\* wrote, and so does zonal_results once the read is complete.
C14_AggregatorStartsWithoutTable ==
    func = ZonalName =>
        /\ pc = "z_zonal" => temp_table = NoTable
        /\ pc \in {"z_read", "z_update"} =>
              /\ temp_table.exists
              /\ TableZones = DOMAIN zone_stats
              /\ \A r \in DOMAIN temp_table.rows :
                    temp_table.rows[r].stat = zone_stats[temp_table.rows[r].OBJECTID_1]
              /\ DOMAIN zonal_results \subseteq TableZones
        /\ pc = "z_update" => DOMAIN zonal_results = DOMAIN zone_stats

\* a call about to invoke the aggregator that has just deleted the table an
\* earlier, failed call left behind
C14_Witness ==
    /\ func = ZonalName
    /\ pc = "z_zonal"
    /\ attempts.Delete = 1
    /\ Len(fc_rows) > 1

\* the names of the feature class before any call
BaseNames == {BaseFields[i].name : i \in DOMAIN BaseFields}

\* C15: no step of any call, failing or not, removes a field from the
\* feature class, so a field a call has added is there in every later call;
\* and the one step a call can take when its output_field is already a field
\* is to return the field-already-exists failure, with no backend operation
\* attempted and the schema, the rows and the temporary table as they were.
C15_AddedFieldBlocksLaterCalls ==
    [][ /\ \A f \in OutputFields : FieldExists(f) => FieldExists(f)'
        /\ (func = ZonalName /\ pc = "z_fields" /\ FieldExists(output_field)) =>
              /\ pc' = "done"
              /\ ret' = Collision
              /\ attempts' = NoAttempts
              /\ UNCHANGED <<fc_fields, fc_rows, temp_table, output_field>> ]_vars

\* a call returned the collision for a field an earlier call had added and
\* left null in every row, the table of a failed call still being there
C15_Witness ==
    /\ ZReturned
    /\ ret = Collision
    /\ output_field \notin BaseNames
    /\ temp_table.exists
    /\ Len(fc_rows) > 1
    /\ \A i \in DOMAIN fc_rows : fc_rows[i][output_field] = Null

---------------------------------------------------------------------------
(* Properties of summarize_field *)

SummaryName == "summarize_field"

\* a call of summarize_field has returned
SReturned == func = SummaryName /\ pc = "done"

\* the rows whose value of the named field is neither null nor NaN
ValueRows ==
    {i \in DOMAIN fc_rows :
        /\ summary_field \in DOMAIN fc_rows[i]
        /\ fc_rows[i][summary_field] \notin {Null, NaN}}

\* a value of the named field that is neither null nor NaN is not a number
NonNumberValue == \E i \in ValueRows : fc_rows[i][summary_field].k # "num"

RECURSIVE SumOver(_)
SumOver(S) ==
    IF S = {} THEN 0
    ELSE LET i == CHOOSE x \in S : TRUE
         IN fc_rows[i][summary_field].n + SumOver(S \ {i})

\* the sum of the non-null, non-NaN values divided by their count
MeanOfValues == [k |-> "float", msg |-> <<>>, columns |-> <<>>,
                 data |-> <<SumOver(ValueRows), Cardinality(ValueRows)>>]

\* the cursor of the mean calculation raised
CursorRaised ==
    /\ printed.problem = "Problem calculating mean"
    /\ printed.listed = <<"RuntimeError">>

\* C16 (as specified): the call returns (False, None) when the named field
\* is not a field of the feature class or has no non-null, non-NaN value, and
\* otherwise (True, m), m the sum of those values divided by their count.
C16_MeanUnlessMissingOrEmpty ==
    SReturned =>
        IF summary_field \notin PreNames \/ ValueRows = {}
        THEN ret = Ret(FALSE, NoneVal)
        ELSE ret = Ret(TRUE, MeanOfValues)

\* C16: the call returns (False, None) when the named field is not a field
\* of the feature class, when it has no non-null, non-NaN value, and when one
\* of these values is not a number; a numeric field with a value yields (True,
\* m), m the sum of the non-null, non-NaN values divided by their count,
\* unless the cursor raises; okay is True only together with that mean and
\* False only together with None.
C16_MeanOfNumericValues ==
    SReturned =>
        /\ (summary_field \notin PreNames \/ ValueRows = {} \/ NonNumberValue)
              => ret = Ret(FALSE, NoneVal)
        /\ (summary_field \in PreNames /\ ValueRows # {} /\ ~NonNumberValue
              /\ ~CursorRaised) => ret = Ret(TRUE, MeanOfValues)
        /\ ret.okay => ret.val = MeanOfValues
        /\ ~ret.okay => ret.val = NoneVal

\* the mean of a column a zonal call filled in part: the null is left out
C16_Witness ==
    /\ SReturned
    /\ ret.okay
    /\ summary_field = "ZonalStat"
    /\ \E i \in DOMAIN fc_rows : fc_rows[i][summary_field] = Null
    /\ \E i \in DOMAIN fc_rows : fc_rows[i][summary_field] # Null

=============================================================================
